---- MODULE Spec2Model ----
(***************************************************************************)
(* Model of wheelhouse_uploader/upload.py: Uploader.upload and the steps   *)
(* it runs against a remote container (libcloud storage driver).           *)
(*                                                                         *)
(* A publisher is one thread of control calling Uploader.upload.  Its      *)
(* position in the code is pub[p].pc; the upload tasks of the thread pool  *)
(* of _upload_files are pub[p].tasks.  Every store operation is one        *)
(* atomic step; any of them may raise InvalidCredsError or another         *)
(* (transient) Exception.                                                  *)
(***************************************************************************)
EXTENDS Integers, Sequences, FiniteSets, TLC

\* ------------------------------------------------------------------ bounds
\* largest retry_on_error passed to upload
MaxRetries == 2
\* number of calls of upload one publisher makes
MaxCalls == 2
\* number of runs of _try_upload_once one publisher makes, over all its
\* calls of upload
MaxAttempts == 3

\* --------------------------------------------------------------- constants
\* Uploader.__init__ default of max_workers
DefaultMaxWorkers == 4

\* File names are sequences of components; the last one is the extension.
index_filename == <<"index", ".html">>
metadata_filename == <<"metadata", ".json">>
dev0 == <<"pkg-1.0", "dev0", ".whl">>
dev1 == <<"pkg-1.0", "dev1", ".whl">>
dev2 == <<"pkg-1.0", "dev2", ".whl">>

\* dev0 is an earlier build that only the container may hold;
\* names the local folder may hold, and the contents (bytes) a build of each
\* may have
LocalNames == {dev1, dev2}
Contents(name) == IF name = dev1 THEN {<<1>>} ELSE {<<2, 2>>, <<3, 3, 3>>}
\* a local folder: its regular, non-hidden files with their content
Folders ==
  UNION {{folder \in [S -> UNION {Contents(n) : n \in S}] :
            \A n \in S : folder[n] \in Contents(n)} : S \in SUBSET LocalNames}
\* worker counts an Uploader is built with
WorkerCounts == {1, DefaultMaxWorkers}

\* lexicographic order of the names: the order of sorted()
NameOrder == <<index_filename, metadata_filename, dev1, dev2>>

sorted(S) == SelectSeq(NameOrder, LAMBDA n : n \in S)

Range(s) == {s[i] : i \in DOMAIN s}

\* ------------------------------------------------------------------ errors
InvalidCredsError == "InvalidCredsError"
TransientError == "Exception"
\* the errors a store operation may raise whatever the state of the store
ErrorTypes == {InvalidCredsError, TransientError}
\* the errors a store operation raises when what it names is not there
ContainerDoesNotExistError == "ContainerDoesNotExistError"
ObjectDoesNotExistError == "ObjectDoesNotExistError"
\* a store operation that raises nothing
Ok == "ok"

\* an exception: its type, where it was raised, and the attempt that raised it
Error(type, origin, attempt) ==
  [type |-> type, origin |-> origin, attempt |-> attempt]
NoError == Error("none", "none", 0)

\* --------------------------------------------------------- pure functions
\* str.endswith(tuple of suffixes)
endswith(name, suffixes) == name[Len(name)] \in suffixes

ignore_list == {".json", ".html"}

\* _get_package_filenames: the listing without the names ending in
\* .json or .html
get_package_filenames(listing) ==
  SelectSeq(listing, LAMBDA n : ~endswith(n, ignore_list))

\* driver.list_container_objects: the listings the store may return, the
\* objects in an order of the store's choosing
list_container_objects(objs) ==
  {listing \in [1..Cardinality(objs) -> objs] : Range(listing) = objs}

\* _get_package_filenames over the container: what it may return
container_package_filenames(objs) ==
  {get_package_filenames(listing) : listing \in list_container_objects(objs)}

\* the series (package and version) of a file name
series(name) == name[1]

\* wheelhouse_uploader.utils.matching_dev_filenames: the existing names of
\* the same series as filename, filename itself excluded
matching_dev_filenames(filename, existing_filenames) ==
  SelectSeq(existing_filenames,
            LAMBDA e : e # filename /\ series(e) = series(filename))

\* hashlib.sha256(content).hexdigest(), as an injective tag of the content
sha256(content) == [hexdigest |-> content]

\* _scan_local_files: the sorted file paths and the metadata of each file
scan_filepaths(local_folder) == sorted(DOMAIN local_folder)

scan_local_metadata(local_folder) ==
  [f \in DOMAIN local_folder |->
     [sha256 |-> sha256(local_folder[f]), size |-> Len(local_folder[f])]]

\* mutant: the manifest read from the container is dropped
dict_update_drops_old(d, other) == other

\* mutant: the entries already in d win over those of other
dict_update_keeps_old(d, other) ==
  [k \in (DOMAIN d) \cup (DOMAIN other) |->
     IF k \in DOMAIN d THEN d[k] ELSE other[k]]

\* dict.update: the entries of other override those of d
dict_update(d, other) ==
  [k \in (DOMAIN d) \cup (DOMAIN other) |->
     IF k \in DOMAIN other THEN other[k] ELSE d[k]]

\* json.dumps of the manifest: the members of the JSON object, by key
json_dumps(metadata) ==
  LET keys == sorted(DOMAIN metadata)
  IN  [i \in 1..Len(keys) |-> <<keys[i], metadata[keys[i]]>>]

\* json.load of a manifest document: the dict of its members
json_load(doc) ==
  [k \in {doc[i][1] : i \in DOMAIN doc} |->
     LET i == CHOOSE j \in DOMAIN doc : doc[j][1] = k IN doc[i][2]]

\* mutant: the digest is looked up under a key the manifest does not use
get_digest_wrong_key(metadata, filename) ==
  IF filename \in DOMAIN metadata /\ "sha1" \in DOMAIN metadata[filename]
  THEN <<metadata[filename].sha1>>
  ELSE <<>>

\* metadata.get(filename, {}).get('sha256'): <<>> is None
get_digest(metadata, filename) ==
  IF filename \in DOMAIN metadata /\ "sha256" \in DOMAIN metadata[filename]
  THEN <<metadata[filename].sha256>>
  ELSE <<>>

\* one <li> line of the index
render_item(metadata, filename) ==
  LET digest == get_digest(metadata, filename)
  IN  [href |-> [path |-> filename,
                 fragment |-> IF digest # <<>>
                              THEN <<"sha256=", digest[1]>> ELSE <<>>],
       text |-> filename]

\* the payload of _update_index
render_index(metadata, package_filenames) ==
  [head |-> "<html><body><p>",
   items |-> [i \in 1..Len(package_filenames) |->
                render_item(metadata, package_filenames[i])],
   tail |-> "</p></body></html>"]

NoIndex == [head |-> "", items |-> <<>>, tail |-> ""]

\* driver.get_container: what it raises
driver_get_container(exists) ==
  IF exists THEN Ok ELSE ContainerDoesNotExistError

\* container.get_object and driver.delete_object: what they raise for name
container_get_object(name, objs) ==
  IF name \in objs THEN Ok ELSE ObjectDoesNotExistError

\* mutant: the missing container is not caught
get_container_except_nothing(type) == FALSE

\* _try_upload_once: except ContainerDoesNotExistError around get_container
get_container_except(type) == type = ContainerDoesNotExistError

\* _try_upload_once: except ObjectDoesNotExistError around the manifest read
get_metadata_except(type) == type = ObjectDoesNotExistError

\* mutant: the object that is already gone is not passed over
prune_except_nothing(type) == FALSE

\* upload_file: except ObjectDoesNotExistError: pass, around get_object and
\* delete_object
prune_except(type) == type = ObjectDoesNotExistError

\* mutant: the option is not honoured, previous dev packages always go
prune_enabled_always(cfg) == TRUE

\* self.delete_previous_dev_packages
prune_enabled(cfg) == cfg.delete_previous_dev_packages

\* mutant: the loop over the previous dev packages is never entered
should_prune_never(cfg, previous_dev_filenames) == FALSE

\* upload_file: if self.delete_previous_dev_packages and previous_dev_filenames
should_prune(cfg, previous_dev_filenames) ==
  prune_enabled(cfg) /\ previous_dev_filenames # <<>>

\* mutant: the previous dev packages are deleted before the upload
after_listing_prune_first(previous_dev_filenames) ==
  IF previous_dev_filenames # <<>> THEN "get_object" ELSE "upload"

\* upload_file: the statement after the listing is the upload
after_listing(previous_dev_filenames) == "upload"

\* mutant: the clause "except InvalidCredsError: raise" is missing
is_fatal_never(exc) == FALSE

\* upload: except InvalidCredsError: raise
is_fatal(exc) == exc.type = InvalidCredsError

\* mutant: the comparison is the wrong way round
retries_exhausted_flipped(retry_on_error) == retry_on_error >= 0

\* mutant: one retry too many is made
retries_exhausted_late(retry_on_error) == retry_on_error < 0

\* mutant: the last retry is never made
retries_exhausted_early(retry_on_error) == retry_on_error <= 1

\* upload: if retry_on_error <= 0: raise
retries_exhausted(retry_on_error) == retry_on_error <= 0

\* mutant: the recursive call passes retry_on_error on unchanged
next_retry_same(retry_on_error) == retry_on_error

\* upload: the recursive call's retry_on_error
next_retry_on_error(retry_on_error) == retry_on_error - 1

\* mutant: the exception of a failed task is swallowed
future_failed_never(task) == FALSE

\* _upload_files: future.result() raises the exception of a failed task
future_failed(task) == task.pc = "failed"

\* an upload task has returned or raised
TaskEnded(task) == task.pc \in {"done", "failed"}

\* mutant: the pool is shut down without waiting, shutdown(wait=False)
pool_joined_nowait(tasks) == TRUE

\* _upload_files: the exit of "with ThreadPoolExecutor" is
\* shutdown(wait=True), which returns once every task has ended
pool_joined(tasks) == \A f \in DOMAIN tasks : TaskEnded(tasks[f])

\* mutant: the loop over as_completed(futures) stops at the first result
all_consumed_first(consumed, futures) == consumed # {}

\* _upload_files: the loop over as_completed(futures) has seen every future
all_consumed(consumed, futures) == consumed = futures

\* ------------------------------------------------------------------- state
VARIABLES
  container_exists,  \* the container is there
  objects,           \* names of the objects in the container
  metadata_json,     \* content of the object metadata.json
  index_html,        \* content of the object index.html
  config,            \* the Uploader's options
  pub,               \* per publisher: the frame of upload and its tasks
  hist               \* per publisher: what the running call has done so far

vars == <<container_exists, objects, metadata_json, index_html, config,
          pub, hist>>
store == <<container_exists, objects, metadata_json, index_html>>

Publishers == DOMAIN pub

\* the frame of a publisher outside upload
IdleFrame ==
  [pc |-> "idle", retry_on_error |-> 0, local_folder |-> <<>>,
   metadata |-> <<>>, tasks |-> <<>>, consumed |-> {}, exc |-> NoError,
   package_filenames |-> <<>>, result |-> NoError]

\* the frame at the start of _try_upload_once
AttemptFrame(local_folder, retry_on_error) ==
  [IdleFrame EXCEPT !.pc = "get_container",
                    !.retry_on_error = retry_on_error,
                    !.local_folder = local_folder]

NoSnapshot == [valid |-> FALSE, folder |-> <<>>, objects |-> {},
               metadata_json |-> <<>>]

\* the history of a publisher that will call upload calls_left times, with
\* folders of at most max_files files, and run _try_upload_once at most
\* budget times; when watched, its reads and writes of metadata.json and the
\* files of its calls that returned are recorded too
InitHist(calls_left, budget, max_files, watched) ==
  [calls_left |-> calls_left, budget |-> budget, max_files |-> max_files,
   watched |-> watched,
   used |-> 0, max_retries |-> 0, attempts |-> 0, nfail |-> 0,
   remote_read |-> <<>>, wrote_metadata |-> FALSE, wrote_index |-> FALSE,
   phase_start |-> {}, before |-> NoSnapshot,
   reads |-> 0, writes |-> 0, returned_files |-> {}]

\* n, one more when the publisher of history h is watched
Counted(h, n) == IF h.watched THEN n + 1 ELSE n

\* the history of a call at the start of an attempt
AttemptHist(h) ==
  [h EXCEPT !.used = @ + 1, !.attempts = @ + 1, !.remote_read = <<>>,
            !.wrote_metadata = FALSE, !.wrote_index = FALSE,
            !.phase_start = {}]

TypeConfig ==
  [update_index : BOOLEAN, delete_previous_dev_packages : BOOLEAN,
   max_workers : WorkerCounts]

\* The container is absent, or holds package files put there earlier.
InitStore ==
  /\ container_exists \in BOOLEAN
  /\ objects \in SUBSET LocalNames
  /\ ~container_exists => objects = {}
  /\ metadata_json = <<>>
  /\ index_html = NoIndex

Init ==
  /\ InitStore
  /\ config \in TypeConfig
  /\ pub = [p \in {1} |-> IdleFrame]
  /\ hist = [p \in {1} |-> InitHist(MaxCalls, MaxAttempts, Cardinality(LocalNames), FALSE)]


\* ------------------------------------------------------------- main flow
Frame(p) == pub[p]

SetFrame(p, frame) == pub' = [pub EXCEPT ![p] = frame]

SetHist(p, h) == hist' = [hist EXCEPT ![p] = h]

\* the history h of publisher p when its call of upload returns
ReturnedHist(p, h) ==
  IF h.watched
  THEN [h EXCEPT !.returned_files = @ \cup DOMAIN Frame(p).local_folder]
  ELSE h

\* the attempt of p raises exc out of _try_upload_once
Raise(p, exc) == SetFrame(p, [Frame(p) EXCEPT !.pc = "except", !.exc = exc])

\* upload returns to its caller
Return(p) ==
  SetFrame(p, [Frame(p) EXCEPT !.pc = "done", !.result = NoError])

\* what the previous call of upload left, when it returned normally; a
\* watched publisher records the files of its calls instead
Snapshot(p) ==
  IF Frame(p).pc = "done" /\ Frame(p).result = NoError /\ ~hist[p].watched
  THEN [valid |-> TRUE, folder |-> Frame(p).local_folder,
        objects |-> objects, metadata_json |-> metadata_json]
  ELSE NoSnapshot

\* upload(local_folder, container, retry_on_error) is called
upload(p) ==
  /\ Frame(p).pc \in {"idle", "done"}
  /\ hist[p].calls_left > 0
  /\ \E local_folder \in Folders, retry_on_error \in 0..MaxRetries :
       /\ Cardinality(DOMAIN local_folder) <= hist[p].max_files
       /\ hist[p].used + retry_on_error + 1 <= hist[p].budget
       /\ SetFrame(p, AttemptFrame(local_folder, retry_on_error))
       /\ SetHist(p, AttemptHist([hist[p] EXCEPT !.calls_left = @ - 1,
                                              !.before = Snapshot(p),
                                              !.max_retries = retry_on_error,
                                              !.attempts = 0,
                                              !.nfail = 0,
                                              !.reads = 0,
                                              !.writes = 0]))
  /\ UNCHANGED <<store, config>>

\* _try_upload_once: driver.get_container, ContainerDoesNotExistError caught
get_container(p) ==
  /\ Frame(p).pc = "get_container"
  /\ LET raised == driver_get_container(container_exists)
     IN  IF raised = Ok
         THEN SetFrame(p, [Frame(p) EXCEPT !.pc = "get_metadata"])
         ELSE IF get_container_except(raised)
         THEN SetFrame(p, [Frame(p) EXCEPT !.pc = "create_container"])
         ELSE Raise(p, Error(raised, "main", hist[p].attempts))
  /\ UNCHANGED <<store, config, hist>>

\* _try_upload_once: driver.create_container
create_container(p) ==
  /\ Frame(p).pc = "create_container"
  /\ container_exists' = TRUE
  /\ SetFrame(p, [Frame(p) EXCEPT !.pc = "get_metadata"])
  /\ UNCHANGED <<objects, metadata_json, index_html, config, hist>>

\* _try_upload_once: container.get_object(metadata.json); when it raises
\* ObjectDoesNotExistError the manifest is {}
get_metadata(p) ==
  /\ Frame(p).pc = "get_metadata"
  /\ LET raised == container_get_object(metadata_filename, objects)
     IN  IF raised = Ok
         THEN /\ SetFrame(p, [Frame(p) EXCEPT !.pc = "as_stream"])
              /\ UNCHANGED hist
         ELSE IF get_metadata_except(raised)
         THEN /\ SetFrame(p, [Frame(p) EXCEPT
                   !.pc = "scan", !.metadata = <<>>])
              /\ SetHist(p, [hist[p] EXCEPT
                   !.remote_read = <<>>,
                   !.reads = Counted(hist[p], @)])
         ELSE /\ Raise(p, Error(raised, "main", hist[p].attempts))
              /\ UNCHANGED hist
  /\ UNCHANGED <<store, config>>

\* _try_upload_once: metadata_obj.as_stream() and json.load: the content
\* metadata.json has now
as_stream(p) ==
  /\ Frame(p).pc = "as_stream"
  /\ SetFrame(p, [Frame(p) EXCEPT
       !.pc = "scan", !.metadata = json_load(metadata_json)])
  /\ SetHist(p, [hist[p] EXCEPT
       !.remote_read = json_load(metadata_json),
       !.reads = Counted(hist[p], @)])
  /\ UNCHANGED <<store, config>>

\* a queued upload task
QueuedTask == [pc |-> "queued", previous_dev_filenames |-> <<>>,
               err |-> NoError, passed_over |-> {}]

\* _try_upload_once: _scan_local_files, metadata.update, and _upload_files
\* submitting one task per file path
scan_and_submit(p) ==
  /\ Frame(p).pc = "scan"
  /\ LET filepaths == scan_filepaths(Frame(p).local_folder)
         local_metadata == scan_local_metadata(Frame(p).local_folder)
     IN  SetFrame(p, [Frame(p) EXCEPT
           !.metadata = dict_update(@, local_metadata),
           !.tasks = [f \in Range(filepaths) |-> QueuedTask],
           !.consumed = {},
           !.pc = IF filepaths = <<>> THEN "shutdown" ELSE "as_completed"])
  /\ SetHist(p, [hist[p] EXCEPT !.phase_start = objects])
  /\ UNCHANGED <<store, config>>

\* the steps of the main flow that call the store, and the errors each raises
MainStoreSteps == {"get_container", "create_container", "get_metadata",
                   "as_stream",
                   "upload_metadata", "list_index", "upload_index"}

MainRaisable(pc) ==
  IF pc \in MainStoreSteps THEN ErrorTypes
  ELSE IF pc = "scan" THEN {TransientError}
  ELSE {}

\* a step of the main flow raises
main_raises(p) ==
  /\ \E type \in MainRaisable(Frame(p).pc) :
       Raise(p, Error(type, "main", hist[p].attempts))
  /\ UNCHANGED <<store, config, hist>>

\* _upload_metadata_file
upload_metadata_file(p) ==
  /\ Frame(p).pc = "upload_metadata"
  /\ objects' = objects \cup {metadata_filename}
  /\ metadata_json' = json_dumps(Frame(p).metadata)
  /\ LET h == [hist[p] EXCEPT !.wrote_metadata = TRUE,
                               !.writes = Counted(hist[p], @)]
     IN  IF config.update_index
         THEN /\ SetFrame(p, [Frame(p) EXCEPT !.pc = "list_index"])
              /\ SetHist(p, h)
         ELSE /\ Return(p)
              /\ SetHist(p, ReturnedHist(p, h))
  /\ UNCHANGED <<container_exists, index_html, config>>

\* _update_index: _get_package_filenames
update_index_list(p) ==
  /\ Frame(p).pc = "list_index"
  /\ \E package_filenames \in container_package_filenames(objects) :
       SetFrame(p, [Frame(p) EXCEPT
         !.pc = "upload_index",
         !.package_filenames = package_filenames])
  /\ UNCHANGED <<store, config, hist>>

\* _update_index: the payload is rendered and uploaded
update_index_upload(p) ==
  /\ Frame(p).pc = "upload_index"
  /\ objects' = objects \cup {index_filename}
  /\ index_html' = render_index(Frame(p).metadata,
                                Frame(p).package_filenames)
  /\ Return(p)
  /\ SetHist(p, ReturnedHist(p, [hist[p] EXCEPT !.wrote_index = TRUE]))
  /\ UNCHANGED <<container_exists, metadata_json, config>>

\* upload: the except clauses around _try_upload_once
upload_except(p) ==
  /\ Frame(p).pc = "except"
  /\ LET exc == Frame(p).exc
     IN  IF is_fatal(exc)
         THEN /\ SetFrame(p, [Frame(p) EXCEPT !.pc = "done", !.result = exc])
              /\ UNCHANGED hist
         ELSE IF retries_exhausted(Frame(p).retry_on_error)
         THEN /\ SetFrame(p, [Frame(p) EXCEPT !.pc = "done", !.result = exc])
              /\ SetHist(p, [hist[p] EXCEPT !.nfail = @ + 1])
         ELSE /\ SetFrame(p, AttemptFrame(
                   Frame(p).local_folder,
                   next_retry_on_error(Frame(p).retry_on_error)))
              /\ SetHist(p, AttemptHist([hist[p] EXCEPT !.nfail = @ + 1]))
  /\ UNCHANGED <<store, config>>


\* ------------------------------------------------------------ upload tasks
Task(p, f) == pub[p].tasks[f]

SetTask(p, f, task) == pub' = [pub EXCEPT ![p].tasks[f] = task]

\* the thread pool of _upload_files is alive
PoolAlive(p) == Frame(p).pc \in {"as_completed", "shutdown"}

Running(p) ==
  {f \in DOMAIN Frame(p).tasks :
     Task(p, f).pc \notin {"queued", "done", "failed"}}

\* the tasks submitted before f that no worker has started yet
QueuedAhead(p, f) ==
  {g \in DOMAIN Frame(p).tasks :
     /\ Task(p, g).pc = "queued"
     /\ \E i, j \in DOMAIN NameOrder :
          NameOrder[i] = g /\ NameOrder[j] = f /\ i < j}

\* a worker thread has taken f from the queue: the workers take the tasks
\* in the order of submission, and the workers not running a task are
\* enough for f and the tasks queued ahead of it; which of the tasks taken
\* performs its first store operation first is up to the threads
CanStart(p, f) ==
  /\ Task(p, f).pc = "queued"
  /\ Cardinality(Running(p)) + Cardinality(QueuedAhead(p, f))
       < config.max_workers

\* the step after a candidate of previous_dev_filenames has been handled
NextCandidate(task) ==
  [task EXCEPT !.previous_dev_filenames = Tail(@),
               !.pc = IF Tail(task.previous_dev_filenames) = <<>>
                      THEN "done" ELSE "get_object"]

\* upload_file: make_driver and driver.get_container, by a free worker
upload_file_get_container(p, f) ==
  /\ PoolAlive(p)
  /\ CanStart(p, f)
  /\ LET raised == driver_get_container(container_exists)
     IN  IF raised = Ok
         THEN SetTask(p, f, [Task(p, f) EXCEPT
                !.pc = IF prune_enabled(config) THEN "list" ELSE "upload"])
         ELSE SetTask(p, f, [Task(p, f) EXCEPT
                !.pc = "failed",
                !.err = Error(raised, "task", hist[p].attempts)])
  /\ UNCHANGED <<store, config, hist>>

\* upload_file: _get_package_filenames and matching_dev_filenames
upload_file_list(p, f) ==
  /\ PoolAlive(p)
  /\ Task(p, f).pc = "list"
  /\ \E previous_dev_filenames \in
          {matching_dev_filenames(f, existing_filenames) :
             existing_filenames \in container_package_filenames(objects)} :
       SetTask(p, f, [Task(p, f) EXCEPT
             !.pc = after_listing(previous_dev_filenames),
             !.previous_dev_filenames = previous_dev_filenames])
  /\ UNCHANGED <<store, config, hist>>

\* upload_file: driver.upload_object_via_stream
upload_file_upload(p, f) ==
  /\ PoolAlive(p)
  /\ Task(p, f).pc = "upload"
  /\ objects' = objects \cup {f}
  /\ SetTask(p, f, [Task(p, f) EXCEPT
       !.pc = IF should_prune(config, Task(p, f).previous_dev_filenames)
              THEN "get_object" ELSE "done"])
  /\ UNCHANGED <<container_exists, metadata_json, index_html, config, hist>>

\* the step after a store operation of the delete loop has raised type
PruneRaised(p, f, type) ==
  IF prune_except(type)
  THEN [NextCandidate(Task(p, f)) EXCEPT
          !.passed_over = @ \cup {Head(Task(p, f).previous_dev_filenames)}]
  ELSE [Task(p, f) EXCEPT !.pc = "failed",
                          !.err = Error(type, "task", hist[p].attempts)]

\* upload_file: container.get_object of the next previous dev package;
\* ObjectDoesNotExistError is passed over
upload_file_get_object(p, f) ==
  /\ PoolAlive(p)
  /\ Task(p, f).pc = "get_object"
  /\ LET raised == container_get_object(
                     Head(Task(p, f).previous_dev_filenames), objects)
     IN  IF raised = Ok
         THEN SetTask(p, f, [Task(p, f) EXCEPT !.pc = "delete_object"])
         ELSE SetTask(p, f, PruneRaised(p, f, raised))
  /\ UNCHANGED <<store, config, hist>>

\* upload_file: driver.delete_object; ObjectDoesNotExistError is passed over
upload_file_delete_object(p, f) ==
  /\ PoolAlive(p)
  /\ Task(p, f).pc = "delete_object"
  /\ LET name == Head(Task(p, f).previous_dev_filenames)
         raised == container_get_object(name, objects)
     IN  IF raised = Ok
         THEN /\ objects' = objects \ {name}
              /\ SetTask(p, f, NextCandidate(Task(p, f)))
         ELSE /\ objects' = objects
              /\ SetTask(p, f, PruneRaised(p, f, raised))
  /\ UNCHANGED <<container_exists, metadata_json, index_html, config, hist>>

\* a store operation of an upload task raises
upload_file_raises(p, f) ==
  /\ PoolAlive(p)
  /\ \/ CanStart(p, f)
     \/ Task(p, f).pc \in {"list", "upload", "get_object", "delete_object"}
  /\ \E type \in ErrorTypes :
       SetTask(p, f, [Task(p, f) EXCEPT
         !.pc = "failed",
         !.err = Error(type, "task", hist[p].attempts)])
  /\ UNCHANGED <<store, config, hist>>

\* _upload_files: as_completed yields an ended task and future.result()
\* returns or raises
future_result(p, f) ==
  /\ Frame(p).pc = "as_completed"
  /\ f \notin Frame(p).consumed
  /\ TaskEnded(Task(p, f))
  /\ IF future_failed(Task(p, f))
     THEN SetFrame(p, [Frame(p) EXCEPT !.pc = "shutdown",
                                       !.exc = Task(p, f).err])
     ELSE SetFrame(p, [Frame(p) EXCEPT
            !.consumed = @ \cup {f},
            !.pc = IF all_consumed(Frame(p).consumed \cup {f},
                                   DOMAIN Frame(p).tasks)
                   THEN "shutdown" ELSE "as_completed"])
  /\ UNCHANGED <<store, config, hist>>

\* _upload_files: the with block ends, ThreadPoolExecutor.shutdown(wait=True)
\* has joined every task, and the pending exception, if any, is raised
pool_shutdown(p) ==
  /\ Frame(p).pc = "shutdown"
  /\ pool_joined(Frame(p).tasks)
  /\ SetFrame(p, [Frame(p) EXCEPT
       !.pc = IF Frame(p).exc # NoError THEN "except" ELSE "upload_metadata"])
  /\ UNCHANGED <<store, config, hist>>

\* ---------------------------------------------------------- specification
Next ==
  \/ \E p \in Publishers : upload(p)
  \/ \E p \in Publishers : get_container(p)
  \/ \E p \in Publishers : create_container(p)
  \/ \E p \in Publishers : get_metadata(p)
  \/ \E p \in Publishers : as_stream(p)
  \/ \E p \in Publishers : scan_and_submit(p)
  \/ \E p \in Publishers : main_raises(p)
  \/ \E p \in Publishers : pool_shutdown(p)
  \/ \E p \in Publishers : upload_metadata_file(p)
  \/ \E p \in Publishers : update_index_list(p)
  \/ \E p \in Publishers : update_index_upload(p)
  \/ \E p \in Publishers : upload_except(p)
  \/ \E p \in Publishers : \E f \in DOMAIN Frame(p).tasks :
       upload_file_get_container(p, f)
  \/ \E p \in Publishers : \E f \in DOMAIN Frame(p).tasks :
       upload_file_list(p, f)
  \/ \E p \in Publishers : \E f \in DOMAIN Frame(p).tasks :
       upload_file_upload(p, f)
  \/ \E p \in Publishers : \E f \in DOMAIN Frame(p).tasks :
       upload_file_get_object(p, f)
  \/ \E p \in Publishers : \E f \in DOMAIN Frame(p).tasks :
       upload_file_delete_object(p, f)
  \/ \E p \in Publishers : \E f \in DOMAIN Frame(p).tasks :
       upload_file_raises(p, f)
  \/ \E p \in Publishers : \E f \in DOMAIN Frame(p).tasks :
       future_result(p, f)

Spec == Init /\ [][Next]_vars

\* The same program publishing to a store that has no container yet; the
\* publisher is watched.
InitFresh ==
  /\ container_exists = FALSE
  /\ objects = {}
  /\ metadata_json = <<>>
  /\ index_html = NoIndex
  /\ config \in TypeConfig
  /\ pub = [p \in {1} |-> IdleFrame]
  /\ hist = [p \in {1} |-> InitHist(MaxCalls, MaxAttempts, Cardinality(LocalNames), TRUE)]

FreshSpec == InitFresh /\ [][Next]_vars

\* Two processes run the program against the same container, each with its
\* own folder of at most one file; each calls upload once, with
\* retry_on_error = 0.
\* The container is absent, empty, or holds dev1, or dev0 and dev1.
InitConcurrent ==
  /\ container_exists \in BOOLEAN
  /\ objects \in {{}, {dev1}, {dev0, dev1}}
  /\ ~container_exists => objects = {}
  /\ metadata_json = <<>>
  /\ index_html = NoIndex
  /\ config \in [update_index : BOOLEAN,
                  delete_previous_dev_packages : BOOLEAN,
                  max_workers : {DefaultMaxWorkers}]
  /\ pub = [p \in {1, 2} |-> IdleFrame]
  /\ hist = [p \in {1, 2} |-> InitHist(1, 1, 1, FALSE)]

ConcurrentSpec == InitConcurrent /\ [][Next]_vars


\* The same program under fair scheduling: a step that can be taken is
\* taken (every store operation and every upload task ends).  One Uploader
\* with its default options, publishing once to a new or an empty container.
InitFair ==
  /\ container_exists \in BOOLEAN
  /\ objects = {}
  /\ metadata_json = <<>>
  /\ index_html = NoIndex
  /\ config = [update_index |-> TRUE, delete_previous_dev_packages |-> TRUE,
               max_workers |-> DefaultMaxWorkers]
  /\ pub = [p \in {1} |-> IdleFrame]
  /\ hist = [p \in {1} |-> InitHist(1, MaxAttempts, Cardinality(LocalNames), FALSE)]

FairSpec == InitFair /\ [][Next]_vars /\ WF_vars(Next)

\* ------------------------------------------------------------------ claims
InCall(p) == Frame(p).pc \notin {"idle", "done"}

Done(p) == Frame(p).pc = "done"

Returned(p) == Done(p) /\ Frame(p).result = NoError

Raised(p) == Done(p) /\ Frame(p).result # NoError

\* C1: when a call of upload has ended after k attempts failed with a
\* non-credential error, with k < max_retries, and no credential error was
\* raised, the call has returned without raising and _try_upload_once has run
\* exactly k + 1 times.
C1_RetryThenSucceed ==
  \A p \in Publishers :
    (/\ Done(p)
     /\ Frame(p).result.type # InvalidCredsError
     /\ hist[p].nfail < hist[p].max_retries)
    => (Returned(p) /\ hist[p].attempts = hist[p].nfail + 1)

\* C1 witness: a call with retry_on_error = 2 returned after one failed attempt
C1_Witness ==
  \E p \in Publishers :
    /\ Returned(p)
    /\ hist[p].max_retries = 2
    /\ hist[p].nfail = 1
    /\ hist[p].attempts = 2

\* C2 as stated: after k >= max_retries failed attempts (k = max_retries
\* included) upload raises instead of succeeding.
C2_RaisesFromMaxRetries ==
  \A p \in Publishers :
    (Done(p) /\ hist[p].nfail >= hist[p].max_retries) => Raised(p)

\* C2 amended: upload raises the error of the last attempt when more than
\* max_retries attempts failed (k = max_retries + 1); after exactly
\* k = max_retries failed attempts the next attempt is still made and, when
\* it raises no error, upload returns.
C2_RaisesAfterMaxRetries ==
  \A p \in Publishers :
    Done(p) =>
      /\ hist[p].nfail > hist[p].max_retries =>
           /\ Raised(p)
           /\ Frame(p).result.type = TransientError
           /\ Frame(p).result.attempt = hist[p].attempts
           /\ hist[p].attempts = hist[p].max_retries + 1
      /\ (/\ hist[p].nfail = hist[p].max_retries
          /\ Frame(p).result.type # InvalidCredsError) => Returned(p)

\* C2 witness: with retry_on_error = 1 the call has raised after two failed
\* attempts
C2_Witness ==
  \E p \in Publishers :
    /\ Raised(p)
    /\ hist[p].max_retries = 1
    /\ hist[p].nfail = 2
    /\ Frame(p).result.attempt = 2

\* C3: a call of upload runs _try_upload_once at most max_retries + 1 times,
\* and under fair scheduling every call that has started ends.
C3_BoundedAttempts ==
  /\ [](\A p \in Publishers :
          /\ hist[p].attempts <= hist[p].max_retries + 1
          /\ InCall(p) =>
               hist[p].attempts + Frame(p).retry_on_error
                 = hist[p].max_retries + 1)
  /\ \A p \in {1} : InCall(p) ~> Done(p)

\* C3 witness: a call with retry_on_error = 2 has ended after three attempts
C3_Witness ==
  \E p \in Publishers :
    /\ Done(p)
    /\ hist[p].max_retries = 2
    /\ hist[p].attempts = 3

\* C4: when an attempt has raised InvalidCredsError, the next step of the
\* publisher ends the call raising that error, and no further attempt is
\* started (none at all when it was the first attempt).
C4_CredsNeverRetried ==
  [][\A p \in Publishers :
       (Frame(p).pc = "except" /\ Frame(p).exc.type = InvalidCredsError)
       => \/ pub'[p] = pub[p]
          \/ /\ pub'[p].pc = "done"
             /\ pub'[p].result = Frame(p).exc
             /\ hist'[p].attempts = hist[p].attempts
             /\ hist'[p].used = hist[p].used]_vars

\* C4 witness: a call has raised the InvalidCredsError of an upload task of
\* its second attempt
C4_Witness ==
  \E p \in Publishers :
    /\ Raised(p)
    /\ Frame(p).result.type = InvalidCredsError
    /\ Frame(p).result.origin = "task"
    /\ hist[p].attempts = 2

\* C5: metadata.json is written only once every upload task of the attempt
\* has ended without error, index.html only after the attempt's metadata.json,
\* and an attempt with a failed upload task writes neither.
C5_WritesAfterUploads ==
  \A p \in Publishers :
    /\ hist[p].wrote_metadata =>
         \A f \in DOMAIN Frame(p).tasks : Task(p, f).pc = "done"
    /\ hist[p].wrote_metadata =>
         DOMAIN Frame(p).tasks = DOMAIN Frame(p).local_folder
    /\ hist[p].wrote_index => hist[p].wrote_metadata
    /\ (\E f \in DOMAIN Frame(p).tasks : Task(p, f).pc = "failed") =>
         (~hist[p].wrote_metadata /\ ~hist[p].wrote_index)

\* C5 witness: both files of the folder uploaded, then both documents written
C5_Witness ==
  \E p \in Publishers :
    /\ hist[p].wrote_metadata
    /\ hist[p].wrote_index
    /\ DOMAIN Frame(p).tasks = {dev1, dev2}


\* C6 as stated: after a successful publish every file of the local folder
\* is an object of the container.
C6_AllFilesPublished ==
  \A p \in Publishers :
    Returned(p) => DOMAIN Frame(p).local_folder \subseteq objects

RECURSIVE upload_files_in_order(_, _, _)
\* the objects left when the upload tasks of filepaths run one after the
\* other, each to its end, over the objects objs
upload_files_in_order(objs, filepaths, prune) ==
  IF filepaths = <<>> THEN objs
  ELSE LET f == Head(filepaths)
           existing == CHOOSE package_filenames \in
                         container_package_filenames(objs) : TRUE
           previous == IF prune
                       THEN Range(matching_dev_filenames(f, existing))
                       ELSE {}
       IN  upload_files_in_order((objs \cup {f}) \ previous,
                                 Tail(filepaths), prune)

\* C7 as stated: whatever the schedule of the upload tasks, the upload phase
\* leaves the objects that the tasks leave when run one after the other.
C7_ScheduleIndependent ==
  \A p \in Publishers :
    Frame(p).pc = "upload_metadata" =>
      objects = upload_files_in_order(
                  hist[p].phase_start,
                  scan_filepaths(Frame(p).local_folder),
                  config.delete_previous_dev_packages)

\* C8 as stated: a successful publish that follows a successful publish of
\* the same folder leaves the object names and the metadata.json content
\* the first one left.
C8_Idempotent ==
  \A p \in Publishers :
    (/\ Returned(p)
     /\ hist[p].before.valid
     /\ hist[p].before.folder = Frame(p).local_folder)
    => /\ objects = hist[p].before.objects
       /\ metadata_json = hist[p].before.metadata_json

\* the keys of a manifest document
Keys(doc) == {doc[i][1] : i \in DOMAIN doc}

\* the manifest in the container is the one read in the attempt overridden
\* by the local scan
ManifestIsMerge(p) ==
  hist[p].wrote_metadata =>
    LET W == json_load(metadata_json)
        R == hist[p].remote_read
        L == scan_local_metadata(Frame(p).local_folder)
    IN  /\ metadata_filename \in objects
        /\ DOMAIN W = (DOMAIN R) \cup (DOMAIN L)
        /\ \A k \in DOMAIN L : W[k] = L[k]
        /\ \A k \in (DOMAIN R) \ (DOMAIN L) : W[k] = R[k]

\* C9: the manifest written by an attempt holds every key of the local scan
\* with its value, every other key of the manifest read in the attempt with
\* its value, and no other key; and no step takes a key out of metadata.json.
C9_ManifestMerge ==
  [][/\ \A p \in Publishers : ManifestIsMerge(p)'
     /\ metadata_filename \in objects =>
          /\ metadata_filename \in objects'
          /\ Keys(metadata_json) \subseteq Keys(metadata_json')]_vars

\* C9 witness: a manifest written over one that held a file no longer in the
\* folder and another build of a file that is in the folder
C9_Witness ==
  \E p \in Publishers :
    /\ hist[p].wrote_metadata
    /\ \E k \in DOMAIN hist[p].remote_read : k \notin DOMAIN Frame(p).local_folder
    /\ \E k \in (DOMAIN hist[p].remote_read) \cap (DOMAIN Frame(p).local_folder) :
         hist[p].remote_read[k].sha256 # sha256(Frame(p).local_folder[k])

\* C10: after a successful publish with update_index, every object whose
\* name ends neither in .json nor in .html is the target of exactly one
\* anchor of index.html, every anchor names an object of the container, and
\* an anchor carries #sha256=<digest> exactly when the manifest written in the
\* attempt has a sha256 for its file (and then that digest).
C10_IndexComplete ==
  \A p \in Publishers :
    (Returned(p) /\ config.update_index) =>
      LET items == index_html.items
          M == json_load(metadata_json)
      IN  /\ \A n \in objects :
                n[Len(n)] \notin {".json", ".html"} =>
                  Cardinality({i \in DOMAIN items : items[i].href.path = n}) = 1
          /\ \A i \in DOMAIN items :
                LET n == items[i].href.path
                    known == n \in DOMAIN M /\ "sha256" \in DOMAIN M[n]
                IN  /\ n \in objects
                    /\ items[i].text = n
                    /\ (items[i].href.fragment # <<>>) <=> known
                    /\ known =>
                         items[i].href.fragment = <<"sha256=", M[n].sha256>>

\* C10 witness: an index with an anchor that carries a digest and one that
\* carries none
C10_Witness ==
  \E p \in Publishers :
    /\ Returned(p)
    /\ config.update_index
    /\ \E i, j \in DOMAIN index_html.items :
         /\ index_html.items[i].href.fragment # <<>>
         /\ index_html.items[j].href.fragment = <<>>

\* C11 as stated: during one call of upload, retries included, metadata.json
\* is read at most once and written at most once.
C11_ManifestOncePerCall ==
  \A p \in Publishers : hist[p].reads <= 1 /\ hist[p].writes <= 1

\* the attempt of p has not read metadata.json yet
BeforeRead(p) ==
  Frame(p).pc \in {"get_container", "create_container", "get_metadata",
                   "as_stream"}

\* C11 amended: during one attempt (one run of _try_upload_once)
\* metadata.json is read at most once and written at most once, the write
\* after the read; since every retry runs the whole attempt again, a call of
\* upload reads it at most max_retries + 1 times and writes it at most
\* max_retries + 1 times, and a call without a failed attempt at most once.
C11_ManifestOncePerAttempt ==
  \A p \in Publishers :
    /\ hist[p].reads <= hist[p].attempts
    /\ hist[p].writes <= hist[p].reads
    /\ hist[p].reads <= hist[p].max_retries + 1
    /\ BeforeRead(p) => hist[p].reads <= hist[p].attempts - 1
    /\ (InCall(p) /\ ~hist[p].wrote_metadata) =>
         hist[p].writes <= hist[p].attempts - 1
    /\ hist[p].nfail = 0 => (hist[p].reads <= 1 /\ hist[p].writes <= 1)

\* C11 witness: the index write failed after the manifest write, and the
\* retry read and wrote the manifest again before the call returned
C11_Witness ==
  \E p \in Publishers :
    /\ Returned(p)
    /\ hist[p].nfail = 1
    /\ hist[p].reads = 2
    /\ hist[p].writes = 2

\* the package files of the container: the objects that are neither the
\* manifest nor the index
PackageObjects == {n \in objects : ~endswith(n, ignore_list)}

\* C12: with pruning enabled, after a successful publish of a folder that
\* holds the single file f, f is in the container and no other build d of
\* the series of f is: of that series only f remains next to metadata.json
\* and index.html.
C12_PrunesEarlierBuild ==
  \A p \in Publishers :
    \A f \in DOMAIN Frame(p).local_folder :
      (/\ Returned(p)
       /\ prune_enabled(config)
       /\ DOMAIN Frame(p).local_folder = {f})
      => /\ f \in objects
         /\ \A d \in PackageObjects : series(d) = series(f) => d = f

\* C12 witness: dev2 published from a folder without dev1 to a container
\* that held dev1 when the upload tasks started; dev1 is gone
C12_Witness ==
  \E p \in Publishers :
    /\ Returned(p)
    /\ prune_enabled(config)
    /\ DOMAIN Frame(p).local_folder = {dev2}
    /\ dev1 \in hist[p].phase_start
    /\ dev1 \notin objects
    /\ dev2 \in objects

\* C13: outside _upload_files no upload task is running: when the error of
\* a failed task has reached the except clauses of upload, and so when the
\* next attempt starts or upload raises, every task of the attempt has
\* ended; the tasks of a new attempt are its own.
C13_ErrorAfterAllTasksEnded ==
  \A p \in Publishers :
    /\ ~PoolAlive(p) =>
         \A f \in DOMAIN Frame(p).tasks : TaskEnded(Task(p, f))
    /\ (Frame(p).pc = "except" /\ Frame(p).exc.origin = "task") =>
         /\ Frame(p).exc.attempt = hist[p].attempts
         /\ \E f \in DOMAIN Frame(p).tasks :
              Task(p, f).pc = "failed" /\ Task(p, f).err = Frame(p).exc
    /\ BeforeRead(p) => Frame(p).tasks = <<>>

\* C13 witness: the error of the task of dev1 has reached the except clauses
\* of upload; the task of dev2, which the dispatcher never looked at, has
\* uploaded its file and ended
C13_Witness ==
  \E p \in Publishers :
    /\ Frame(p).pc = "except"
    /\ DOMAIN Frame(p).tasks = {dev1, dev2}
    /\ Frame(p).consumed = {}
    /\ Task(p, dev1).pc = "failed"
    /\ Frame(p).exc = Task(p, dev1).err
    /\ Task(p, dev2).pc = "done"
    /\ dev2 \in objects

\* the dispatcher of p holds the error of a failed task
ErrorPending(p) == Frame(p).pc = "shutdown" /\ Frame(p).exc # NoError

\* an upload task that has not ended is not cancelled: it takes its next
\* step, or waits in the queue for a free worker
NotCancelled(p, f) ==
  /\ Task(p, f).pc = "queued" /\ CanStart(p, f) =>
       ENABLED upload_file_get_container(p, f)
  /\ Task(p, f).pc = "list" => ENABLED upload_file_list(p, f)
  /\ Task(p, f).pc = "upload" => ENABLED upload_file_upload(p, f)
  /\ Task(p, f).pc = "get_object" => ENABLED upload_file_get_object(p, f)
  /\ Task(p, f).pc = "delete_object" => ENABLED upload_file_delete_object(p, f)

\* _upload_files returns normally only when every task has ended without
\* error
NormalReturnMeansAllDone(p) ==
  Frame(p).pc = "upload_metadata" =>
    /\ Frame(p).exc = NoError
    /\ DOMAIN Frame(p).tasks = DOMAIN Frame(p).local_folder
    /\ \A f \in DOMAIN Frame(p).tasks : Task(p, f).pc = "done"

\* C14 as stated: once the dispatcher holds the error of a failed task it
\* raises it to its caller without waiting for the remaining tasks; the
\* remaining tasks are not cancelled; it returns normally only when every
\* task has ended without error.
C14_SurfacesWithoutWaiting ==
  \A p \in Publishers :
    /\ ErrorPending(p) => ENABLED pool_shutdown(p)
    /\ \A f \in DOMAIN Frame(p).tasks : PoolAlive(p) => NotCancelled(p, f)
    /\ NormalReturnMeansAllDone(p)

\* C14 amended: when an upload task fails, the dispatcher takes its error
\* as soon as as_completed yields the failed task and looks at no further
\* result, but the error reaches the caller of _upload_files only once every
\* remaining task has ended; the remaining tasks are not cancelled; the
\* dispatcher returns normally only when every task has ended without error.
C14_SurfacesAfterJoin ==
  \A p \in Publishers :
    /\ \A f \in DOMAIN Frame(p).tasks :
         (/\ Frame(p).pc = "as_completed"
          /\ Task(p, f).pc = "failed"
          /\ f \notin Frame(p).consumed) => ENABLED future_result(p, f)
    /\ ErrorPending(p) =>
         /\ \E f \in DOMAIN Frame(p).tasks \ Frame(p).consumed :
              Task(p, f).pc = "failed" /\ Task(p, f).err = Frame(p).exc
         /\ (ENABLED pool_shutdown(p)) <=>
              \A f \in DOMAIN Frame(p).tasks : TaskEnded(Task(p, f))
    /\ \A f \in DOMAIN Frame(p).tasks : PoolAlive(p) => NotCancelled(p, f)
    /\ NormalReturnMeansAllDone(p)

\* C14 witness: the dispatcher holds the error of the task of dev1 while the
\* task of dev2 is still uploading
C14_Witness ==
  \E p \in Publishers :
    /\ ErrorPending(p)
    /\ DOMAIN Frame(p).tasks = {dev1, dev2}
    /\ Task(p, dev1).pc = "failed"
    /\ Task(p, dev2).pc = "upload"

\* the task f of p is about to call get_object or delete_object for an
\* object that is no longer in the container
CandidateGone(p, f) ==
  /\ Task(p, f).pc \in {"get_object", "delete_object"}
  /\ Head(Task(p, f).previous_dev_filenames) \notin objects

\* C15: a step of an upload task that finds the object it is about to delete
\* already gone goes on to the next candidate (or ends the task without
\* error after the last one); only another error raised by the store fails
\* the task, and no task ever fails with ObjectDoesNotExistError.
C15_GoneIsPassedOver ==
  [][\A p \in Publishers : \A f \in DOMAIN Frame(p).tasks :
       /\ (/\ CandidateGone(p, f)
           /\ f \in DOMAIN pub'[p].tasks
           /\ pub'[p].tasks[f] # Task(p, f)) =>
             \/ /\ pub'[p].tasks[f].pc \in {"get_object", "done"}
                /\ pub'[p].tasks[f].err = NoError
                /\ pub'[p].tasks[f].previous_dev_filenames =
                     Tail(Task(p, f).previous_dev_filenames)
                /\ objects' = objects
             \/ /\ pub'[p].tasks[f].pc = "failed"
                /\ pub'[p].tasks[f].err.type \in ErrorTypes
       /\ Task(p, f).pc = "failed" =>
             Task(p, f).err.type # ObjectDoesNotExistError]_vars

\* C15 witness: the task of dev2 listed dev0 and dev1, found dev0 already
\* deleted by the other publisher, went on to dev1 and deleted it, and has
\* ended without error
C15_Witness ==
  \E p \in Publishers :
    /\ dev2 \in DOMAIN Frame(p).tasks
    /\ Task(p, dev2).pc = "done"
    /\ Task(p, dev2).passed_over = {dev0}
    /\ dev1 \notin objects

\* exc is no error, or one a store operation raised for a reason of its own
NotAMissingThing(exc) == exc.type \in ErrorTypes \cup {NoError.type}

\* C16: a missing container and a missing manifest never reach the except
\* clauses of upload: past the container steps of an attempt the container
\* exists, an attempt that finds no metadata.json goes on with the empty
\* manifest, and a call in which no store operation raised an error of its
\* own has returned after a single attempt.
C16_MissingRecoveredInAttempt ==
  \A p \in Publishers :
    /\ NotAMissingThing(Frame(p).exc)
    /\ NotAMissingThing(Frame(p).result)
    /\ \A f \in DOMAIN Frame(p).tasks : NotAMissingThing(Task(p, f).err)
    /\ (InCall(p) /\ ~BeforeRead(p) /\ Frame(p).pc # "except") =>
         (container_exists /\ hist[p].reads >= 1)
    /\ (Frame(p).pc = "scan" /\ metadata_filename \notin objects) =>
         (Frame(p).metadata = <<>> /\ hist[p].remote_read = <<>>)
    /\ (Done(p) /\ hist[p].nfail = 0
          /\ Frame(p).result.type # InvalidCredsError) =>
         (Returned(p) /\ hist[p].attempts = 1)

\* C16 witness: the first call of upload against a store without the
\* container has returned after one attempt, the container and the manifest
\* are there
C16_Witness ==
  \E p \in Publishers :
    /\ Returned(p)
    /\ hist[p].calls_left = MaxCalls - 1
    /\ hist[p].attempts = 1
    /\ hist[p].nfail = 0
    /\ container_exists
    /\ Keys(metadata_json) = {dev1, dev2}

\* C17: with delete_previous_dev_packages disabled no step of any publish,
\* retries included, takes a name out of the container.
C17_NoDeleteWhenDisabled ==
  [][~config.delete_previous_dev_packages => objects \subseteq objects']_vars

\* C17 witness: with the option disabled, dev2 has been published from a
\* folder without dev1 to a container that held dev1, and dev1 is still there
C17_Witness ==
  \E p \in Publishers :
    /\ ~config.delete_previous_dev_packages
    /\ Returned(p)
    /\ DOMAIN Frame(p).local_folder = {dev2}
    /\ dev1 \in hist[p].phase_start
    /\ {dev1, dev2} \subseteq objects

\* the task is in the loop over previous_dev_filenames
InDeleteLoop(task) == task.pc \in {"get_object", "delete_object"}

\* C18: an upload task enters the delete loop only by the step that uploads
\* its own file, with the candidates it took from the listing it made before
\* that step; the candidates change only by that listing and by the loop
\* going on; an object leaves the container only by the delete step of a
\* task in the loop, for its current candidate; and a task that has raised
\* takes no further step, so one that raised in its listing or upload
\* deletes nothing.
C18_DeleteAfterOwnUpload ==
  [][/\ \A p \in Publishers :
          \A f \in (DOMAIN Frame(p).tasks) \cap (DOMAIN pub'[p].tasks) :
            hist'[p].attempts = hist[p].attempts =>
              LET task == Task(p, f)
                  task2 == pub'[p].tasks[f]
              IN  /\ (InDeleteLoop(task2) /\ ~InDeleteLoop(task)) =>
                        /\ task.pc = "upload"
                        /\ f \in objects'
                        /\ task2.previous_dev_filenames =
                             task.previous_dev_filenames
                  /\ task2.previous_dev_filenames
                        # task.previous_dev_filenames =>
                        \/ /\ task.pc = "list"
                           /\ task2.pc = "upload"
                           /\ objects' = objects
                           /\ f \notin Range(task2.previous_dev_filenames)
                           /\ Range(task2.previous_dev_filenames)
                                \subseteq objects
                        \/ /\ InDeleteLoop(task)
                           /\ task2.previous_dev_filenames =
                                Tail(task.previous_dev_filenames)
                  /\ task.pc = "failed" => task2 = task
     /\ \A n \in objects \ objects' :
          \E p \in Publishers : \E f \in DOMAIN Frame(p).tasks :
            /\ Task(p, f).pc = "delete_object"
            /\ Head(Task(p, f).previous_dev_filenames) = n
            /\ pub'[p].tasks[f].pc \in {"get_object", "done"}]_vars

\* C18 witness: the task of dev2 has uploaded dev2 and is about to delete
\* dev1, which was in the container before the task started
C18_Witness ==
  \E p \in Publishers :
    /\ DOMAIN Frame(p).tasks = {dev2}
    /\ Task(p, dev2).pc = "delete_object"
    /\ Task(p, dev2).previous_dev_filenames = <<dev1>>
    /\ dev1 \in hist[p].phase_start
    /\ {dev1, dev2} \subseteq objects

\* every package file of the container has an entry in metadata.json, and
\* every anchor of index.html, when the index is kept, carries a digest
AllObjectsInManifest ==
  /\ PackageObjects \subseteq Keys(metadata_json)
  /\ config.update_index =>
       \A i \in DOMAIN index_html.items :
         index_html.items[i].href.fragment # <<>>

\* C19 as stated: from a store without objects, with pruning disabled,
\* whenever a call of upload has returned, every package file of the
\* container has an entry in metadata.json and every anchor a digest, also
\* after calls that raised.
C19_EveryObjectInManifest ==
  \A p \in Publishers :
    (Returned(p) /\ ~config.delete_previous_dev_packages) =>
      AllObjectsInManifest

\* C19 amended: from a store without objects, with pruning disabled,
\* whenever a call of upload has returned (earlier calls may have raised,
\* attempts may have failed and been retried, the folders may differ),
\* every package file of the container that is a file of a call that
\* returned (this call or an earlier one) has an entry in metadata.json
\* and, when the index is kept, its anchor carries a digest.
C19_ReturnedFilesInManifest ==
  \A p \in Publishers :
    (Returned(p) /\ ~config.delete_previous_dev_packages) =>
      /\ PackageObjects \cap hist[p].returned_files
            \subseteq Keys(metadata_json)
      /\ config.update_index =>
           \A i \in DOMAIN index_html.items :
             index_html.items[i].text \in hist[p].returned_files =>
               index_html.items[i].href.fragment # <<>>

\* C19 witness: a call for dev1 uploaded it and raised, then a call for dev2
\* returned: dev2 is in the manifest and its anchor carries a digest, dev1
\* is in the container without an entry
C19_Witness ==
  \E p \in Publishers :
    /\ Returned(p)
    /\ ~config.delete_previous_dev_packages
    /\ config.update_index
    /\ hist[p].returned_files = {dev2}
    /\ PackageObjects = {dev1, dev2}
    /\ Keys(metadata_json) = {dev2}
    /\ Len(index_html.items) = 2

\* metadata.json holds the entry of every file of the folder of p, as
\* scanned
ScanInManifest(p) ==
  \A k \in DOMAIN Frame(p).local_folder :
    /\ k \in Keys(metadata_json)
    /\ json_load(metadata_json)[k] =
         scan_local_metadata(Frame(p).local_folder)[k]

\* C20 as stated: when two publishers with disjoint folders have both
\* returned (pruning disabled; with retry_on_error = 0 a returned call had
\* no failure), metadata.json holds the entries of both local scans,
\* however their steps were interleaved.
C20_BothScansInManifest ==
  \A p, q \in Publishers :
    (/\ p # q
     /\ Returned(p) /\ Returned(q)
     /\ ~config.delete_previous_dev_packages
     /\ (DOMAIN Frame(p).local_folder) \cap (DOMAIN Frame(q).local_folder) = {})
    => (ScanInManifest(p) /\ ScanInManifest(q))

====
